---- MODULE Spec2Model ----
(***************************************************************************)
(* PyAlchemyAdmin: DBManager (src/pyalchemyadmin/db_manager.py) and its    *)
(* dialect subclasses, modelled as callers issuing CRUD calls against one  *)
(* table of a transactional backend.  A call is a sequence of steps, one   *)
(* per round trip to the backend: the entry (argument checks and the       *)
(* opening of the session), the statements, and the commit together with   *)
(* the release of the session.                                             *)
(***************************************************************************)
EXTENDS Integers, Sequences, FiniteSets, TLC

\* ------------------------------------------------------------------ bounds
MaxRows == 3        \* rows ever inserted into the table (primary keys 1..MaxRows)
MaxConcRows == 2    \* the same cap for the two-caller specification

\* ------------------------------------------------------------ vocabulary
Callers == {"a", "b"}
Ids == 1..MaxRows

\* the columns the mapped table declares, and the names a caller may pass
DeclaredColumns == {"name", "annotation"}
ColNames == DeclaredColumns \cup {"bogus"}

NULL == "NULL"          \* SQL NULL in a stored row
Absent == "-"           \* key not present in a keyword map
NameValues == {"P1", "P2"}
\* a row's annotation is the text a caller supplied, or NULL when none was
AnnotationValues == {"A2"}

\* a stored row, the marker of a missing row, the marker of an untouched row
Row == [name : NameValues, annotation : AnnotationValues \cup {NULL}]
NoRow == [name |-> Absent, annotation |-> Absent]
Untouched == [name |-> "?", annotation |-> "?"]

\* a keyword map (**kwargs, update_values, a record of bulk_create)
Map(n, a, b) == [name |-> n, annotation |-> a, bogus |-> b]
EmptyMap == Map(Absent, Absent, Absent)
Keys(m) == {k \in ColNames : m[k] # Absent}

\* a table class: "project" derives from the manager's declarative base,
\* "foreign" maps the same table but derives from another base
Tables == {"project", "foreign"}
OfBase(table) == table = "project"

\* advanced conditions: column != value, with SQL's treatment of NULL
CondNe(col, val) == [col |-> col, val |-> val]
CondHolds(cond, row) == row[cond.col] # NULL /\ row[cond.col] # cond.val

\* ------------------------------------------------- manager configuration
\* port=None, and what a method without a return statement gives
None == -1
NoCommand == <<>>

AVAILABLE_DIALECTS == {"postgresql", "mysql", "oracle", "mssql", "sqlite"}
\* AVAILABLE_ENGINES.get(dialect, [])
AVAILABLE_ENGINES(dialect) ==
    IF dialect = "postgresql" THEN {"psycopg2", "pg8000", "asyncpg"}
    ELSE IF dialect = "mysql" THEN {"mysqldb", "pymysql"}
    ELSE IF dialect = "oracle" THEN {"cx_oracle"}
    ELSE IF dialect = "mssql" THEN {"pyodbc", "pymssql"}
    ELSE IF dialect = "sqlite" THEN {""}
    ELSE {}

\* the manager classes; "DBManager" is a subclass written by the caller that
\* passes its dialect to DBManager.__init__ itself
DialectClasses ==
    {"PostgreDBManager", "MySQLDBManager", "OracleDBManager",
     "MicrosoftSQLServerDBManager", "SQLiteDBManager"}
Classes == DialectClasses \cup {"DBManager"}
\* the class attribute dialect
ClassDialect(cls) ==
    IF cls = "PostgreDBManager" THEN "postgresql"
    ELSE IF cls = "MySQLDBManager" THEN "mysql"
    ELSE IF cls = "OracleDBManager" THEN "oracle"
    ELSE IF cls = "MicrosoftSQLServerDBManager" THEN "mssql"
    ELSE IF cls = "SQLiteDBManager" THEN "sqlite"
    ELSE ""
\* the class attribute default_port
default_port(cls) ==
    IF cls = "PostgreDBManager" THEN 5432
    ELSE IF cls = "MySQLDBManager" THEN 3306
    ELSE IF cls = "OracleDBManager" THEN 1521
    ELSE IF cls = "MicrosoftSQLServerDBManager" THEN 1433
    ELSE None

\* str(port), as the f-string formats it: the decimal digits, or 'None'
Digit(d) == <<"0", "1", "2", "3", "4", "5", "6", "7", "8", "9">>[d + 1]
RECURSIVE Str(_)
Str(n) ==
    IF n = None THEN <<"None">>
    ELSE IF n < 10 THEN <<Digit(n)>>
    ELSE Str(n \div 10) \o <<Digit(n % 10)>>

\* _construct_database_url that writes the + of the driver segment even when
\* no driver is given
_construct_database_url_plus(dialect, database, user, password, host, port, engine) ==
    IF dialect = "sqlite"
    THEN IF database # ":memory:" THEN <<"sqlite:///", database>> ELSE <<"sqlite://">>
    ELSE <<dialect, "+", engine, "://", user, ":", password, "@", host, ":">>
            \o Str(port) \o <<"/", database>>

\* _construct_database_url: the descriptor as the sequence of its pieces
_construct_database_url(dialect, database, user, password, host, port, engine) ==
    IF dialect = "sqlite"
    THEN IF database # ":memory:" THEN <<"sqlite:///", database>> ELSE <<"sqlite://">>
    ELSE LET engine_spec == IF engine # "" THEN <<dialect, "+", engine>> ELSE <<dialect>>
         IN  engine_spec \o <<"://", user, ":", password, "@", host, ":">>
                \o Str(port) \o <<"/", database>>

\* lock_table_command that gives SQLite the exclusive-mode command too
lock_table_command_all(cls, table_name) ==
    IF cls = "MySQLDBManager" THEN <<"LOCK TABLES ", table_name, " WRITE">>
    ELSE IF cls = "MicrosoftSQLServerDBManager"
        THEN <<"SELECT * FROM ", table_name, " WITH (TABLOCKX)">>
    ELSE <<"LOCK TABLE ", table_name, " IN EXCLUSIVE MODE">>

\* lock_table_command of each class: the text of the command, or nothing
lock_table_command(cls, table_name) ==
    IF cls \in {"PostgreDBManager", "OracleDBManager"}
        THEN <<"LOCK TABLE ", table_name, " IN EXCLUSIVE MODE">>
    ELSE IF cls = "MySQLDBManager" THEN <<"LOCK TABLES ", table_name, " WRITE">>
    ELSE IF cls = "MicrosoftSQLServerDBManager"
        THEN <<"SELECT * FROM ", table_name, " WITH (TABLOCKX)">>
    ELSE NoCommand

\* the arguments of a constructor call, and what reaches DBManager.__init__
Config(cls, dialect, database, user, password, host, port, engine) ==
    [cls |-> cls, dialect |-> dialect, database |-> database, user |-> user,
     password |-> password, host |-> host, port |-> port, engine |-> engine]
NoConfig == Config("-", "-", "-", "-", "-", "-", None, "-")

\* a manager instance: its class and what __init__ stores on it
Manager(cls, url, base) ==
    [cls |-> cls, _database_url |-> url, _engine |-> [url |-> url],
     _session |-> [bind |-> [url |-> url], autocommit |-> FALSE, autoflush |-> FALSE],
     _base |-> base]
NoManager == Manager("-", <<>>, "-")
Managers == {"m1", "m2"}

\* the outcome of the last constructor or lock_table_command call
Outcome(what, args, passed, status, error, url, command) ==
    [call |-> what, args |-> args, passed |-> passed, status |-> status,
     error |-> error, url |-> url, command |-> command]
NoOut == Outcome("none", NoConfig, NoConfig, "none", "-", <<>>, NoCommand)

DialectSpace == {"postgresql", "sqlite", "db2"}
EngineSpace == {"", "psycopg2", "pymysql"}
PortSpace == {None, 0, 7776}
DatabaseSpace == {":memory:", "postgres"}
UserSpace == {"admin", ""}
TableNames == {"project", "users"}

\* the manager of the example: PostgreDBManager on 127.0.0.1:7776
ExampleConfig ==
    Config("PostgreDBManager", "postgresql", "postgres", "admin", "admin", "127.0.0.1",
           7776, "psycopg2")

\* ----------------------------------------------------------------- calls
\* the arguments of one call; a field an operation does not take is left at
\* its default
Op(kind, table, filters, values, conds, cols, mode, flag, records, sql) ==
    [kind |-> kind, table |-> table, filters |-> filters, values |-> values,
     conds |-> conds, cols |-> cols, mode |-> mode, flag |-> flag,
     records |-> records, sql |-> sql]
NoOp == Op("none", "project", EmptyMap, EmptyMap, <<>>, <<>>, "all", FALSE, <<>>, "-")

FieldSpace ==
    {Map("P1", Absent, Absent), Map("P2", "A2", Absent), Map("P2", Absent, Absent),
     Map("P1", Absent, "x")}
FilterSpace ==
    {EmptyMap, Map("P1", Absent, Absent), Map("P2", Absent, Absent),
     Map("P2", "A2", Absent), Map(Absent, Absent, "x")}
UpdateSpace ==
    {EmptyMap, Map(Absent, "A2", Absent), Map("P1", "A2", Absent),
     Map(Absent, Absent, "x")}
CondSpace == {<<>>, <<CondNe("annotation", "A1")>>}
CondSpace2 == CondSpace \cup {<<CondNe("annotation", "A1"), CondNe("name", "P1")>>}
ColsSpace == {<<>>, <<"annotation">>, <<"bogus">>}
ModeSpace == {"all", "one", "first"}
RecordsSpace ==
    {<<>>, <<Map("P1", Absent, Absent)>>,
     <<Map("P2", "A2", Absent), Map("P2", Absent, Absent)>>,
     <<Map("P1", Absent, Absent), Map("P1", Absent, "x")>>}
SqlSpace == {"SELECT", "INSERT", "DELETE_RETURNING"}

CreateCalls ==
    {Op("create", "project", f, EmptyMap, <<>>, <<>>, "all", FALSE, <<>>, "-") :
        f \in FieldSpace}
    \cup {Op("create", "foreign", Map("P2", "A2", Absent), EmptyMap, <<>>, <<>>,
             "all", FALSE, <<>>, "-")}
BulkCreateCalls ==
    {Op("bulk_create", t, EmptyMap, EmptyMap, <<>>, <<>>, "all", FALSE, r, "-") :
        t \in Tables, r \in RecordsSpace}
RetrieveCalls ==
    {Op("retrieve", "project", f, EmptyMap, cc, cols, m, FALSE, <<>>, "-") :
        f \in FilterSpace, cc \in CondSpace, cols \in ColsSpace, m \in ModeSpace}
    \cup {Op("retrieve", "foreign", f, EmptyMap, <<>>, cols, m, FALSE, <<>>, "-") :
        f \in {EmptyMap, Map("P1", Absent, Absent)},
        cols \in {<<>>, <<"annotation">>}, m \in {"all", "first"}}
UpdateCalls ==
    {Op("update", "project", f, v, cc, <<>>, "all", FALSE, <<>>, "-") :
        f \in FilterSpace, v \in UpdateSpace, cc \in CondSpace2}
    \cup {Op("update", "foreign", f, v, <<>>, <<>>, "all", FALSE, <<>>, "-") :
        f \in {EmptyMap, Map(Absent, Absent, "x")},
        v \in {EmptyMap, Map(Absent, "A2", Absent)}}
DeleteCalls ==
    {Op("delete", "project", f, EmptyMap, cc, cols, "all", e, <<>>, "-") :
        f \in FilterSpace, cc \in CondSpace, cols \in ColsSpace, e \in BOOLEAN}
    \cup {Op("delete", "foreign", f, EmptyMap, <<>>, <<>>, "all", e, <<>>, "-") :
        f \in {EmptyMap, Map("P1", Absent, Absent)}, e \in BOOLEAN}
ExistsCalls ==
    {Op("exists", t, f, EmptyMap, cc, <<>>, "all", FALSE, <<>>, "-") :
        t \in Tables, f \in FilterSpace, cc \in CondSpace}
ExecuteCalls ==
    {Op("execute", "project", f, EmptyMap, <<>>, <<>>, "all", fetch, <<>>, q) :
        f \in {Map("P1", Absent, Absent)}, fetch \in BOOLEAN, q \in SqlSpace}
AllCalls ==
    [create |-> CreateCalls, bulk_create |-> BulkCreateCalls, retrieve |-> RetrieveCalls,
     update |-> UpdateCalls, delete |-> DeleteCalls, exists |-> ExistsCalls,
     execute |-> ExecuteCalls]

\* the calls of the two-caller specification: the first caller uses every
\* operation, the second one writes to the same rows
ConcUpdates ==
    {Op("update", "project", Map("P1", Absent, Absent), Map(Absent, "A2", Absent),
        <<>>, <<>>, "all", FALSE, <<>>, "-"),
     Op("update", "project", EmptyMap, Map("P1", "A2", Absent),
        <<>>, <<>>, "all", FALSE, <<>>, "-")}
ConcCreates ==
    {Op("create", "project", Map("P1", Absent, Absent), EmptyMap, <<>>, <<>>, "all",
        FALSE, <<>>, "-")}
ConcDeletes ==
    {Op("delete", "project", Map("P1", Absent, Absent), EmptyMap, <<>>,
        <<"annotation">>, "all", TRUE, <<>>, "-")}
ConcCallsA ==
    [create |-> ConcCreates,
     bulk_create |->
        {Op("bulk_create", "project", EmptyMap, EmptyMap, <<>>, <<>>, "all", FALSE,
            <<Map("P2", "A2", Absent)>>, "-")},
     retrieve |->
        {Op("retrieve", "project", Map("P1", Absent, Absent), EmptyMap, <<>>,
            <<"annotation">>, "all", FALSE, <<>>, "-")},
     update |-> ConcUpdates,
     delete |-> ConcDeletes,
     exists |->
        {Op("exists", "project", Map("P2", Absent, Absent), EmptyMap, <<>>, <<>>,
            "all", FALSE, <<>>, "-")},
     execute |->
        {Op("execute", "project", Map("P1", Absent, Absent), EmptyMap, <<>>, <<>>,
            "all", FALSE, <<>>, "DELETE_RETURNING")}]
ConcCallsB ==
    [create |-> ConcCreates, bulk_create |-> {}, retrieve |-> {}, update |-> ConcUpdates,
     delete |-> ConcDeletes, exists |-> {}, execute |-> {}]

\* ----------------------------------------------------------------- state
VARIABLES
    db,               \* committed rows of the table, by primary key
    nextId,           \* last primary key the backend handed out
    pc,               \* position of each caller inside its call
    op,               \* arguments of each caller's current (or last) call
    call,             \* the call's session: open now, sessions opened, commits,
                      \* statements sent
    pend,             \* uncommitted writes of the caller's transaction
    seen,             \* committed value of each row when the transaction wrote it
    deleted_count,    \* delete: rows removed by the DELETE statement
    deleted_records,  \* delete / execute: rows captured by the read
    ret,              \* outcome of the caller's last call
    chain,            \* how the call follows the caller's previous call
    mgr,              \* the manager instances constructed so far
    out               \* outcome of the last constructor or lock_table_command call

vars == <<db, nextId, pc, op, call, pend, seen, deleted_count, deleted_records,
          ret, chain, mgr, out>>

NoWrites == [id \in Ids |-> Untouched]
NoSession ==
    [open |-> FALSE, opened |-> 0, commits |-> 0, validated |-> "skipped", sent |-> <<>>]
NoRet == [status |-> "none", kind |-> "-", rows |-> <<>>, flag |-> FALSE]
Err(kind) == [status |-> "error", kind |-> kind, rows |-> <<>>, flag |-> FALSE]
OkNone == [status |-> "ok", kind |-> "None", rows |-> <<>>, flag |-> FALSE]
OkList(rows) == [status |-> "ok", kind |-> "list", rows |-> rows, flag |-> FALSE]
OkRow(row) == [status |-> "ok", kind |-> "row", rows |-> <<row>>, flag |-> FALSE]
OkBool(b) == [status |-> "ok", kind |-> "bool", rows |-> <<>>, flag |-> b]

Init ==
    /\ db = [id \in Ids |-> NoRow]
    /\ nextId = 0
    /\ pc = [c \in Callers |-> "idle"]
    /\ op = [c \in Callers |-> NoOp]
    /\ call = [c \in Callers |-> NoSession]
    /\ pend = [c \in Callers |-> NoWrites]
    /\ seen = [c \in Callers |-> NoWrites]
    /\ deleted_count = [c \in Callers |-> 0]
    /\ deleted_records = [c \in Callers |-> <<>>]
    /\ ret = [c \in Callers |-> NoRet]
    /\ chain = [c \in Callers |-> "none"]
    /\ mgr = [m \in Managers |->
                IF m = "m1"
                THEN Manager(ExampleConfig.cls,
                             _construct_database_url(
                                ExampleConfig.dialect, ExampleConfig.database,
                                ExampleConfig.user, ExampleConfig.password,
                                ExampleConfig.host, ExampleConfig.port,
                                ExampleConfig.engine),
                             m)
                ELSE NoManager]
    /\ out = NoOut

\* ------------------------------------------------------ schema validation
\* _has_column that takes every name for a column of a table of the base
_has_column_any(table, column_name) ==
    IF ~OfBase(table) THEN "invalid" ELSE "yes"

\* _has_column: "invalid" when the class is not a subclass of the manager's
\* base, else whether the name is one of its columns
_has_column(table, column_name) ==
    IF ~OfBase(table) THEN "invalid"
    ELSE IF column_name \in DeclaredColumns THEN "yes" ELSE "no"

\* _validate_column_existence: the outcome of checking every name of the set
_validate_column_existence(table, names) ==
    IF \E n \in names : _has_column(table, n) = "invalid" THEN "InvalidTable"
    ELSE IF \E n \in names : _has_column(table, n) = "no" THEN "UnknownColumn"
    ELSE "ok"

RECURSIVE RecordKeys(_)
RecordKeys(records) ==
    IF records = <<>> THEN {}
    ELSE Keys(Head(records)) \cup RecordKeys(Tail(records))
SeqRange(s) == {s[i] : i \in 1..Len(s)}

\* ------------------------------------------------------- query predicates
\* the equality filters alone, the conditions left out
MatchesFiltersOnly(row, o) ==
    /\ row # NoRow
    /\ \A k \in Keys(o.filters) : row[k] = o.filters[k]

\* filter_by(**filters) followed by filter(condition) for every condition
Matches(row, o) ==
    /\ row # NoRow
    /\ \A k \in Keys(o.filters) : row[k] = o.filters[k]
    /\ \A i \in 1..Len(o.conds) : CondHolds(o.conds[i], row)

\* the table as the caller's transaction reads it
Visible(c) == [id \in Ids |-> IF pend[c][id] # Untouched THEN pend[c][id] ELSE db[id]]
MatchIds(T, o) == {id \in Ids : Matches(T[id], o)}
Held(c) == {id \in Ids : pend[c][id] # Untouched}
LockedByOther(c, id) == \E d \in Callers \ {c} : id \in Held(d)

\* a result row: the mapped columns, or with_entities(*return_columns)
FullRow(row) == <<row.name, row.annotation>>
Project(row, cols) == IF cols = <<>> THEN FullRow(row) ELSE [i \in 1..Len(cols) |-> row[cols[i]]]
Min(S) == CHOOSE x \in S : \A y \in S : x <= y
RECURSIVE RowsOf(_, _, _)
RowsOf(T, ids, cols) ==
    IF ids = {} THEN <<>>
    ELSE <<Project(T[Min(ids)], cols)>> \o RowsOf(T, ids \ {Min(ids)}, cols)

\* table(**kwargs): columns not given stay NULL
NewRow(fields) ==
    [name |-> IF fields.name = Absent THEN NULL ELSE fields.name,
     annotation |-> IF fields.annotation = Absent THEN NULL ELSE fields.annotation]
\* SET that writes the given values and clears the columns not named
MergeReplace(row, values) ==
    [k \in DeclaredColumns |-> IF values[k] # Absent THEN values[k] ELSE NULL]

\* UPDATE ... SET: the named columns take the new values
Merge(row, values) ==
    [k \in DeclaredColumns |-> IF values[k] # Absent THEN values[k] ELSE row[k]]
\* COMMIT: the transaction's writes become the committed rows
Apply(T, writes) == [id \in Ids |-> IF writes[id] # Untouched THEN writes[id] ELSE T[id]]

\* ------------------------------------------------------------ call entry
\* how a call follows the caller's previous call: the same successful update
\* again, or a retrieve by the fields of the create that just succeeded
Follows(c, o) ==
    IF ret[c].status = "ok" /\ op[c].kind = "update" /\ o = op[c] THEN "repeat"
    ELSE IF /\ ret[c].status = "ok" /\ op[c].kind = "create" /\ o.kind = "retrieve"
            /\ o.table = op[c].table /\ o.filters = op[c].filters /\ o.conds = <<>>
         THEN "roundtrip"
    ELSE "none"

\* the part every entry point shares: the argument checks have given early
\* (an error kind, "return" or "run"); unless they end the call the session
\* is opened and the call moves to its first step.  A caller issues its next
\* call once it has taken the outcome of the last one (Return), or at once
\* when the next call is one that Follows tracks
Enter(c, o, early, validated, first) ==
    /\ pc[c] = "idle" \/ (pc[c] = "done" /\ Follows(c, o) # "none")
    /\ op' = [op EXCEPT ![c] = o]
    /\ chain' = [chain EXCEPT ![c] = Follows(c, o)]
    /\ deleted_count' = [deleted_count EXCEPT ![c] = 0]
    /\ deleted_records' = [deleted_records EXCEPT ![c] = <<>>]
    /\ IF early = "run"
       THEN /\ pc' = [pc EXCEPT ![c] = first]
            /\ call' = [call EXCEPT ![c] = [open |-> TRUE, opened |-> 1,
                                            commits |-> 0, validated |-> validated,
                                            sent |-> <<>>]]
            /\ ret' = [ret EXCEPT ![c] = NoRet]
       ELSE /\ pc' = [pc EXCEPT ![c] = "done"]
            /\ call' = [call EXCEPT ![c] = [NoSession EXCEPT !.validated = validated]]
            /\ ret' = [ret EXCEPT ![c] = IF early = "return" THEN OkNone ELSE Err(early)]
    /\ UNCHANGED <<db, nextId, pend, seen, mgr, out>>

\* whether the caller can enter an operation of this kind now
Ready(c, kind) ==
    /\ out = NoOut
    /\ \/ pc[c] = "idle"
       \/ /\ pc[c] = "done" /\ ret[c].status = "ok"
          /\ \/ kind = "update" /\ op[c].kind = "update"
             \/ kind = "retrieve" /\ op[c].kind = "create"

AfterValidation(v) == IF v = "ok" THEN "run" ELSE v

\* create, lines 195-197
CreateCall(c, calls, cap) ==
    /\ Ready(c, "create")
    /\ \E o \in calls :
        /\ nextId < cap
        /\ LET v == _validate_column_existence(o.table, Keys(o.filters))
           IN  Enter(c, o, AfterValidation(v), v, "commit")

\* bulk_create, lines 229-235
BulkCreateCall(c, calls, cap) ==
    /\ Ready(c, "bulk_create")
    /\ \E o \in calls :
        /\ nextId + Len(o.records) <= cap
        /\ LET v == _validate_column_existence(o.table, RecordKeys(o.records))
           IN  IF o.records = <<>>
               THEN Enter(c, o, "return", "skipped", "stmt")
               ELSE Enter(c, o, AfterValidation(v), v, "stmt")

\* retrieve, lines 281-288
RetrieveCall(c, calls) ==
    /\ Ready(c, "retrieve")
    /\ \E o \in calls :
        /\ LET v == _validate_column_existence(o.table, SeqRange(o.cols) \cup Keys(o.filters))
           IN  IF o.mode \notin {"all", "one"}
               THEN Enter(c, o, "InvalidFetchMode", "skipped", "stmt")
               ELSE Enter(c, o, AfterValidation(v), v, "stmt")

\* update that validates the column names before it looks at update_values
UpdateCallValidateFirst(c, calls) ==
    /\ Ready(c, "update")
    /\ \E o \in calls :
        /\ LET v == _validate_column_existence(o.table, Keys(o.values) \cup Keys(o.filters))
           IN  IF v # "ok"
               THEN Enter(c, o, v, v, "stmt")
               ELSE IF Keys(o.values) = {}
               THEN Enter(c, o, "EmptyUpdate", v, "stmt")
               ELSE Enter(c, o, "run", v, "stmt")

\* update, lines 327-333
UpdateCall(c, calls) ==
    /\ Ready(c, "update")
    /\ \E o \in calls :
        /\ LET v == _validate_column_existence(o.table, Keys(o.values) \cup Keys(o.filters))
           IN  IF Keys(o.values) = {}
               THEN Enter(c, o, "EmptyUpdate", "skipped", "stmt")
               ELSE Enter(c, o, AfterValidation(v), v, "stmt")

\* delete that validates the filter keys and not the return columns
DeleteCallFiltersOnly(c, calls) ==
    /\ Ready(c, "delete")
    /\ \E o \in calls :
        /\ LET v == _validate_column_existence(o.table, Keys(o.filters))
           IN  Enter(c, o, AfterValidation(v), v, IF o.cols # <<>> THEN "select" ELSE "stmt")

\* delete, lines 377-382
DeleteCall(c, calls) ==
    /\ Ready(c, "delete")
    /\ \E o \in calls :
        /\ LET v == _validate_column_existence(o.table, SeqRange(o.cols) \cup Keys(o.filters))
           IN  Enter(c, o, AfterValidation(v), v, IF o.cols # <<>> THEN "select" ELSE "stmt")

\* exists, lines 424-426
ExistsCall(c, calls) ==
    /\ Ready(c, "exists")
    /\ \E o \in calls :
        /\ LET v == _validate_column_existence(o.table, Keys(o.filters))
           IN  Enter(c, o, AfterValidation(v), v, "stmt")

\* execute, line 163
ExecuteCall(c, calls, cap) ==
    /\ Ready(c, "execute")
    /\ \E o \in calls :
        /\ o.sql = "INSERT" => nextId < cap
        /\ Enter(c, o, "run", "skipped", "stmt")

\* ------------------------------------------------------------ statements
\* a statement as the session sends it: the SQL text, in pieces, and the
\* values bound to its parameters
Statement(text, params) == [text |-> text, params |-> params]

\* the statements with execute formatting the values of params into the text
StmtInterpolated(c) ==
    LET o == op[c]
        at == <<o.kind, pc[c]>>
    IN  IF at \in {<<"create", "commit">>, <<"bulk_create", "stmt">>}
            THEN <<Statement(<<"INSERT">>, o.filters)>>
        ELSE IF at \in {<<"retrieve", "stmt">>, <<"exists", "stmt">>, <<"delete", "select">>}
            THEN <<Statement(<<"SELECT">>, o.filters)>>
        ELSE IF at = <<"update", "stmt">> THEN <<Statement(<<"UPDATE">>, o.filters)>>
        ELSE IF at = <<"delete", "stmt">> THEN <<Statement(<<"DELETE">>, o.filters)>>
        ELSE IF at = <<"execute", "stmt">>
            THEN <<Statement(<<o.sql, o.filters.name>>, EmptyMap)>>
        ELSE <<>>

\* the statement the caller's step sends: the ORM's statement of the
\* operation, or for execute text(query_string) with params
Stmt(c) ==
    LET o == op[c]
        at == <<o.kind, pc[c]>>
    IN  IF at \in {<<"create", "commit">>, <<"bulk_create", "stmt">>}
            THEN <<Statement(<<"INSERT">>, o.filters)>>
        ELSE IF at \in {<<"retrieve", "stmt">>, <<"exists", "stmt">>, <<"delete", "select">>}
            THEN <<Statement(<<"SELECT">>, o.filters)>>
        ELSE IF at = <<"update", "stmt">> THEN <<Statement(<<"UPDATE">>, o.filters)>>
        ELSE IF at = <<"delete", "stmt">> THEN <<Statement(<<"DELETE">>, o.filters)>>
        ELSE IF at = <<"execute", "stmt">> THEN <<Statement(<<o.sql>>, o.filters)>>
        ELSE <<>>
Sent(c) == [call EXCEPT ![c].sent = @ \o Stmt(c)]

\* leaving the block in a way that releases the session only when the call
\* returns, not when it raises
CloseOnReturnOnly(c, r, committed) ==
    /\ pc' = [pc EXCEPT ![c] = "done"]
    /\ ret' = [ret EXCEPT ![c] = r]
    /\ call' = [call EXCEPT ![c].open = (r.status = "error"),
                            ![c].commits = @ + (IF committed THEN 1 ELSE 0),
                            ![c].sent = @ \o Stmt(c)]
    /\ pend' = [pend EXCEPT ![c] = NoWrites]
    /\ seen' = [seen EXCEPT ![c] = NoWrites]

\* leaving the "with self._session()" block: the session is closed, which
\* drops whatever the transaction has not committed, and the call returns r
Close(c, r, committed) ==
    /\ pc' = [pc EXCEPT ![c] = "done"]
    /\ ret' = [ret EXCEPT ![c] = r]
    /\ call' = [call EXCEPT ![c].open = FALSE,
                            ![c].commits = @ + (IF committed THEN 1 ELSE 0),
                            ![c].sent = @ \o Stmt(c)]
    /\ pend' = [pend EXCEPT ![c] = NoWrites]
    /\ seen' = [seen EXCEPT ![c] = NoWrites]

\* a statement that writes: the rows it touches are locked until the
\* transaction ends, and it waits while another transaction holds one
Write(c, ids, writes) ==
    /\ \A id \in ids : ~LockedByOther(c, id)
    /\ pend' = [pend EXCEPT ![c] = [id \in Ids |-> IF id \in ids THEN writes[id] ELSE @[id]]]
    /\ seen' = [seen EXCEPT ![c] = [id \in Ids |-> IF id \in ids THEN db[id] ELSE @[id]]]

\* create that adds the record and leaves the block without a commit
CreateNoCommit(c) ==
    /\ pc[c] = "commit" /\ op[c].kind = "create"
    /\ Close(c, OkNone, FALSE)
    /\ UNCHANGED <<db, nextId, op, deleted_count, deleted_records, chain, mgr, out>>

\* create, lines 198-202: the INSERT is flushed by session.commit()
CreateCommit(c) ==
    /\ pc[c] = "commit" /\ op[c].kind = "create"
    /\ \E fail \in BOOLEAN :
        IF fail \/ nextId >= MaxRows
        THEN /\ Close(c, Err("Backend"), FALSE)
             /\ UNCHANGED <<db, nextId>>
        ELSE /\ db' = [db EXCEPT ![nextId + 1] = NewRow(op[c].filters)]
             /\ nextId' = nextId + 1
             /\ Close(c, OkNone, TRUE)
    /\ UNCHANGED <<op, deleted_count, deleted_records, chain, mgr, out>>

\* bulk_create, line 236: one INSERT for the whole list
BulkInsert(c) ==
    /\ pc[c] = "stmt" /\ op[c].kind = "bulk_create"
    /\ LET n == Len(op[c].records)
           new == (nextId + 1)..(nextId + n)
       IN  \E fail \in BOOLEAN :
            IF fail \/ nextId + n > MaxRows
            THEN /\ Close(c, Err("Backend"), FALSE)
                 /\ UNCHANGED <<nextId>>
            ELSE /\ Write(c, new, [id \in new |-> NewRow(op[c].records[id - nextId])])
                 /\ nextId' = nextId + n
                 /\ pc' = [pc EXCEPT ![c] = "commit"]
                 /\ call' = Sent(c) /\ UNCHANGED ret
    /\ UNCHANGED <<db, op, deleted_count, deleted_records, chain, mgr, out>>

\* bulk_create whose records are committed one by one: a failure keeps the
\* first record
BulkCommitFirstKept(c) ==
    /\ pc[c] = "commit" /\ op[c].kind = "bulk_create"
    /\ \E fail \in BOOLEAN :
        IF fail
        THEN /\ Close(c, Err("Backend"), FALSE)
             /\ db' = [db EXCEPT ![Min(Held(c))] = pend[c][Min(Held(c))]]
        ELSE /\ db' = Apply(db, pend[c])
             /\ Close(c, OkNone, TRUE)
    /\ UNCHANGED <<nextId, op, deleted_count, deleted_records, chain, mgr, out>>

\* bulk_create, lines 237-239
BulkCommit(c) ==
    /\ pc[c] = "commit" /\ op[c].kind = "bulk_create"
    /\ \E fail \in BOOLEAN :
        IF fail
        THEN /\ Close(c, Err("Backend"), FALSE)
             /\ UNCHANGED db
        ELSE /\ db' = Apply(db, pend[c])
             /\ Close(c, OkNone, TRUE)
    /\ UNCHANGED <<nextId, op, deleted_count, deleted_records, chain, mgr, out>>

\* retrieve, lines 289-300
RetrieveQuery(c) ==
    /\ pc[c] = "stmt" /\ op[c].kind = "retrieve"
    /\ LET T == Visible(c)
           M == MatchIds(T, op[c])
       IN  \E fail \in BOOLEAN :
            IF fail THEN Close(c, Err("Backend"), FALSE)
            ELSE IF op[c].mode = "all"
                 THEN Close(c, OkList(RowsOf(T, M, op[c].cols)), FALSE)
            ELSE IF M = {} THEN Close(c, OkNone, FALSE)
            ELSE \E id \in M : Close(c, OkRow(Project(T[id], op[c].cols)), FALSE)
    /\ UNCHANGED <<db, nextId, op, deleted_count, deleted_records, chain, mgr, out>>

\* update that writes the matching rows without waiting for the rows another
\* transaction has written
UpdateStmtNoWait(c) ==
    /\ pc[c] = "stmt" /\ op[c].kind = "update"
    /\ LET T == Visible(c)
           M == MatchIds(T, op[c])
       IN  /\ pend' = [pend EXCEPT ![c] = [id \in Ids |-> IF id \in M THEN Merge(T[id], op[c].values) ELSE @[id]]]
           /\ seen' = [seen EXCEPT ![c] = [id \in Ids |-> IF id \in M THEN db[id] ELSE @[id]]]
           /\ pc' = [pc EXCEPT ![c] = "commit"]
    /\ call' = Sent(c)
    /\ UNCHANGED <<db, nextId, op, ret, deleted_count, deleted_records, chain, mgr, out>>

\* update that changes one of the matching rows only
UpdateStmtFirstOnly(c) ==
    /\ pc[c] = "stmt" /\ op[c].kind = "update"
    /\ LET T == Visible(c)
           M == MatchIds(T, op[c])
       IN  /\ \/ M = {} /\ Write(c, {}, T)
              \/ \E id \in M : Write(c, {id}, [i \in {id} |-> Merge(T[i], op[c].values)])
           /\ pc' = [pc EXCEPT ![c] = "commit"]
    /\ call' = Sent(c)
    /\ UNCHANGED <<db, nextId, op, ret, deleted_count, deleted_records, chain, mgr, out>>

\* update, lines 334-342: SELECT ... FOR UPDATE of the matching rows and the
\* UPDATE of the same rows
UpdateStmt(c) ==
    /\ pc[c] = "stmt" /\ op[c].kind = "update"
    /\ LET T == Visible(c)
           M == MatchIds(T, op[c])
       IN  \E fail \in BOOLEAN :
            IF fail THEN Close(c, Err("Backend"), FALSE)
            ELSE /\ Write(c, M, [id \in M |-> Merge(T[id], op[c].values)])
                 /\ pc' = [pc EXCEPT ![c] = "commit"]
                 /\ call' = Sent(c) /\ UNCHANGED ret
    /\ UNCHANGED <<db, nextId, op, deleted_count, deleted_records, chain, mgr, out>>

\* update whose commit installs the first written row only
UpdateCommitPartial(c) ==
    /\ pc[c] = "commit" /\ op[c].kind = "update"
    /\ db' = [id \in Ids |-> IF Held(c) # {} /\ id = Min(Held(c)) THEN pend[c][id] ELSE db[id]]
    /\ Close(c, OkNone, TRUE)
    /\ UNCHANGED <<nextId, op, deleted_count, deleted_records, chain, mgr, out>>

\* update, lines 343-345
UpdateCommit(c) ==
    /\ pc[c] = "commit" /\ op[c].kind = "update"
    /\ \E fail \in BOOLEAN :
        IF fail
        THEN /\ Close(c, Err("Backend"), FALSE)
             /\ UNCHANGED db
        ELSE /\ db' = Apply(db, pend[c])
             /\ Close(c, OkNone, TRUE)
    /\ UNCHANGED <<nextId, op, deleted_count, deleted_records, chain, mgr, out>>

\* delete, lines 387-390: the projection of the rows about to be deleted
DeleteSelect(c) ==
    /\ pc[c] = "select" /\ op[c].kind = "delete"
    /\ LET T == Visible(c)
       IN  \E fail \in BOOLEAN :
            IF fail
            THEN /\ Close(c, Err("Backend"), FALSE)
                 /\ UNCHANGED deleted_records
            ELSE /\ deleted_records' = [deleted_records EXCEPT
                                          ![c] = RowsOf(T, MatchIds(T, op[c]), op[c].cols)]
                 /\ pc' = [pc EXCEPT ![c] = "stmt"]
                 /\ call' = Sent(c) /\ UNCHANGED <<ret, pend, seen>>
    /\ UNCHANGED <<db, nextId, op, deleted_count, chain, mgr, out>>

\* delete, line 392
DeleteStmt(c) ==
    /\ pc[c] = "stmt" /\ op[c].kind = "delete"
    /\ LET M == MatchIds(Visible(c), op[c])
       IN  \E fail \in BOOLEAN :
            IF fail
            THEN /\ Close(c, Err("Backend"), FALSE)
                 /\ UNCHANGED deleted_count
            ELSE /\ Write(c, M, [id \in M |-> NoRow])
                 /\ deleted_count' = [deleted_count EXCEPT ![c] = Cardinality(M)]
                 /\ pc' = [pc EXCEPT ![c] = "commit"]
                 /\ call' = Sent(c) /\ UNCHANGED ret
    /\ UNCHANGED <<db, nextId, op, deleted_records, chain, mgr, out>>

\* delete that takes the captured rows, not the count, for the rows deleted
DeleteCommitByRecords(c) ==
    /\ pc[c] = "commit" /\ op[c].kind = "delete"
    /\ db' = Apply(db, pend[c])
    /\ IF op[c].flag /\ deleted_records[c] = <<>>
       THEN Close(c, Err("NoRecords"), TRUE)
       ELSE IF op[c].cols # <<>> /\ deleted_records[c] # <<>>
       THEN Close(c, OkList(deleted_records[c]), TRUE)
       ELSE Close(c, OkNone, TRUE)
    /\ UNCHANGED <<nextId, op, deleted_count, deleted_records, chain, mgr, out>>

\* delete, lines 393-402
DeleteCommit(c) ==
    /\ pc[c] = "commit" /\ op[c].kind = "delete"
    /\ \E fail \in BOOLEAN :
        IF fail
        THEN /\ Close(c, Err("Backend"), FALSE)
             /\ UNCHANGED db
        ELSE /\ db' = Apply(db, pend[c])
             /\ IF op[c].flag /\ deleted_count[c] = 0
                THEN Close(c, Err("NoRecords"), TRUE)
                ELSE IF op[c].cols # <<>> /\ deleted_records[c] # <<>>
                THEN Close(c, OkList(deleted_records[c]), TRUE)
                ELSE Close(c, OkNone, TRUE)
    /\ UNCHANGED <<nextId, op, deleted_count, deleted_records, chain, mgr, out>>

\* exists that looks at the equality filters and not at the conditions
ExistsQueryFiltersOnly(c) ==
    /\ pc[c] = "stmt" /\ op[c].kind = "exists"
    /\ \E fail \in BOOLEAN :
        IF fail THEN Close(c, Err("RawBackend"), FALSE)
        ELSE Close(c, OkBool(\E id \in Ids : MatchesFiltersOnly(Visible(c)[id], op[c])),
                   FALSE)
    /\ UNCHANGED <<db, nextId, op, deleted_count, deleted_records, chain, mgr, out>>

\* exists, lines 427-431: a backend error leaves the call as it is
ExistsQuery(c) ==
    /\ pc[c] = "stmt" /\ op[c].kind = "exists"
    /\ \E fail \in BOOLEAN :
        IF fail THEN Close(c, Err("RawBackend"), FALSE)
        ELSE Close(c, OkBool(MatchIds(Visible(c), op[c]) # {}), FALSE)
    /\ UNCHANGED <<db, nextId, op, deleted_count, deleted_records, chain, mgr, out>>

\* execute, line 164: the statement text with its bound parameters
ExecuteStmt(c) ==
    /\ pc[c] = "stmt" /\ op[c].kind = "execute"
    /\ LET T == Visible(c)
           all == {id \in Ids : T[id] # NoRow}
       IN  \E fail \in BOOLEAN :
            IF fail \/ (op[c].sql = "INSERT" /\ nextId >= MaxRows)
            THEN /\ Close(c, Err("RawBackend"), FALSE)
                 /\ UNCHANGED <<nextId, deleted_records>>
            ELSE /\ pc' = [pc EXCEPT ![c] = "finish"]
                 /\ call' = Sent(c) /\ UNCHANGED ret
                 /\ IF op[c].sql = "SELECT"
                    THEN /\ deleted_records' = [deleted_records EXCEPT ![c] = RowsOf(T, all, <<>>)]
                         /\ UNCHANGED <<nextId, pend, seen>>
                    ELSE IF op[c].sql = "INSERT"
                    THEN /\ Write(c, {nextId + 1}, [id \in {nextId + 1} |-> NewRow(op[c].filters)])
                         /\ nextId' = nextId + 1
                         /\ UNCHANGED deleted_records
                    ELSE /\ Write(c, all, [id \in all |-> NoRow])
                         /\ deleted_records' = [deleted_records EXCEPT ![c] = RowsOf(T, all, <<>>)]
                         /\ UNCHANGED nextId
    /\ UNCHANGED <<db, op, deleted_count, chain, mgr, out>>

\* execute that commits before it looks at fetch
ExecuteFinishCommitFirst(c) ==
    /\ pc[c] = "finish" /\ op[c].kind = "execute"
    /\ \E fail \in BOOLEAN :
        IF fail
        THEN /\ Close(c, Err("RawBackend"), FALSE)
             /\ UNCHANGED db
        ELSE /\ db' = Apply(db, pend[c])
             /\ IF ~op[c].flag THEN Close(c, OkNone, TRUE)
                ELSE IF op[c].sql = "INSERT" THEN Close(c, Err("ResourceClosed"), TRUE)
                ELSE Close(c, OkList(deleted_records[c]), TRUE)
    /\ UNCHANGED <<nextId, op, deleted_count, deleted_records, chain, mgr, out>>

\* execute, lines 165-170: fetchall() without a commit, which raises for a
\* statement that returns no rows, or the commit
ExecuteFinish(c) ==
    /\ pc[c] = "finish" /\ op[c].kind = "execute"
    /\ IF op[c].flag
       THEN /\ IF op[c].sql = "INSERT"
               THEN Close(c, Err("ResourceClosed"), FALSE)
               ELSE Close(c, OkList(deleted_records[c]), FALSE)
            /\ UNCHANGED db
       ELSE \E fail \in BOOLEAN :
             IF fail
             THEN /\ Close(c, Err("RawBackend"), FALSE)
                  /\ UNCHANGED db
             ELSE /\ db' = Apply(db, pend[c])
                  /\ Close(c, OkNone, TRUE)
    /\ UNCHANGED <<nextId, op, deleted_count, deleted_records, chain, mgr, out>>

\* the caller takes the outcome of the finished call and goes on
Return(c) ==
    /\ pc[c] = "done"
    /\ pc' = [pc EXCEPT ![c] = "idle"]
    /\ op' = [op EXCEPT ![c] = NoOp]
    /\ call' = [call EXCEPT ![c] = NoSession]
    /\ ret' = [ret EXCEPT ![c] = NoRet]
    /\ chain' = [chain EXCEPT ![c] = "none"]
    /\ deleted_count' = [deleted_count EXCEPT ![c] = 0]
    /\ deleted_records' = [deleted_records EXCEPT ![c] = <<>>]
    /\ UNCHANGED <<db, nextId, pend, seen, mgr, out>>

\* ----------------------------------------------------------- construction
\* DBManager.__init__ that looks the driver up even when none is given
DBManagerInitStrictDriver(cfg, passed, fail) ==
    IF passed.dialect \notin AVAILABLE_DIALECTS
        THEN Outcome("construct", cfg, passed, "error", "UnsupportedDialect", <<>>, NoCommand)
    ELSE IF passed.engine \notin AVAILABLE_ENGINES(passed.dialect)
        THEN Outcome("construct", cfg, passed, "error", "UnsupportedEngine", <<>>, NoCommand)
    ELSE LET url == _construct_database_url(
                        passed.dialect, passed.database, passed.user, passed.password,
                        passed.host, passed.port, passed.engine)
         IN  IF fail
             THEN Outcome("construct", cfg, passed, "error", "SessionError", url, NoCommand)
             ELSE Outcome("construct", cfg, passed, "ok", "-", url, NoCommand)

\* DBManager.__init__, lines 48-73: the checks of dialect and driver, then
\* the descriptor, the engine, the session factory and the base; fail is a
\* SQLAlchemyError of create_engine or sessionmaker
DBManagerInit(cfg, passed, fail) ==
    IF passed.dialect \notin AVAILABLE_DIALECTS
        THEN Outcome("construct", cfg, passed, "error", "UnsupportedDialect", <<>>, NoCommand)
    ELSE IF passed.engine # "" /\ passed.engine \notin AVAILABLE_ENGINES(passed.dialect)
        THEN Outcome("construct", cfg, passed, "error", "UnsupportedEngine", <<>>, NoCommand)
    ELSE LET url == _construct_database_url(
                        passed.dialect, passed.database, passed.user, passed.password,
                        passed.host, passed.port, passed.engine)
         IN  IF fail
             THEN Outcome("construct", cfg, passed, "error", "SessionError", url, NoCommand)
             ELSE Outcome("construct", cfg, passed, "ok", "-", url, NoCommand)

\* _DialectDBManager.__init__, lines 33-45: the default port, the class's
\* dialect
DialectDBManagerInit(cfg, fail) ==
    DBManagerInit(cfg,
                  [cfg EXCEPT !.dialect = ClassDialect(cfg.cls),
                              !.port = IF cfg.port = None THEN default_port(cfg.cls)
                                       ELSE cfg.port],
                  fail)

\* SQLiteDBManager.__init__, lines 83-100: it passes dialect= to
\* _DialectDBManager.__init__, which has no such parameter
SQLiteDBManagerInit(cfg, fail) ==
    Outcome("construct", cfg, NoConfig, "error", "TypeError", <<>>, NoCommand)

\* cls(**cfg)
New(cfg, fail) ==
    IF cfg.cls = "SQLiteDBManager" THEN SQLiteDBManagerInit(cfg, fail)
    ELSE IF cfg.cls \in DialectClasses THEN DialectDBManagerInit(cfg, fail)
    ELSE DBManagerInit(cfg, cfg, fail)

\* the constructor calls of the model: SQLiteDBManager takes the database
\* only, the other dialect classes take no dialect
ConfigSpace ==
    {Config("DBManager", d, database, user, "admin", "127.0.0.1", port, engine) :
        d \in DialectSpace, database \in DatabaseSpace, user \in UserSpace,
        port \in PortSpace, engine \in EngineSpace}
    \cup {Config(cls, "", database, user, "admin", "127.0.0.1", port, engine) :
            cls \in DialectClasses \ {"SQLiteDBManager"}, database \in DatabaseSpace,
            user \in UserSpace, port \in PortSpace, engine \in EngineSpace}
    \cup {Config("SQLiteDBManager", "", database, "", "", "", None, "") :
            database \in DatabaseSpace}

\* a constructor that keeps the descriptor, the engine, the session factory
\* and the base on the class, where every instance reads them
ConstructOnClass(m) ==
    /\ \A c \in Callers : pc[c] = "idle"
    /\ out = NoOut /\ mgr[m] = NoManager
    /\ \E cfg \in ConfigSpace, fail \in BOOLEAN :
        /\ out' = New(cfg, fail)
        /\ mgr' = IF out'.status = "ok"
                  THEN [x \in Managers |->
                            IF x = m \/ mgr[x] # NoManager
                            THEN Manager(IF x = m THEN cfg.cls ELSE mgr[x].cls, out'.url, m)
                            ELSE NoManager]
                  ELSE mgr
    /\ UNCHANGED <<db, nextId, pc, op, call, pend, seen, deleted_count, deleted_records,
                   ret, chain>>

\* m = cls(**cfg): the instance exists when __init__ returns
Construct(m) ==
    /\ \A c \in Callers : pc[c] = "idle"
    /\ out = NoOut /\ mgr[m] = NoManager
    /\ \E cfg \in ConfigSpace, fail \in BOOLEAN :
        /\ out' = New(cfg, fail)
        /\ mgr' = IF out'.status = "ok"
                  THEN [mgr EXCEPT ![m] = Manager(cfg.cls, out'.url, m)]
                  ELSE mgr
    /\ UNCHANGED <<db, nextId, pc, op, call, pend, seen, deleted_count, deleted_records,
                   ret, chain>>

\* cls.lock_table_command(table_name), lines 48-104
LockTableCommand ==
    /\ \A c \in Callers : pc[c] = "idle"
    /\ out = NoOut
    /\ \E cls \in DialectClasses, t \in TableNames :
        out' = Outcome("lock", [NoConfig EXCEPT !.cls = cls, !.database = t], NoConfig,
                       "ok", "-", <<>>, lock_table_command(cls, t))
    /\ UNCHANGED <<db, nextId, pc, op, call, pend, seen, deleted_count, deleted_records,
                   ret, chain, mgr>>

\* the caller takes the outcome and goes on
Take ==
    /\ out # NoOut
    /\ out' = NoOut
    /\ UNCHANGED <<db, nextId, pc, op, call, pend, seen, deleted_count, deleted_records,
                   ret, chain, mgr>>

\* ---------------------------------------------------------- specification
Step(c, calls, cap) ==
    \/ CreateCall(c, calls.create, cap)
    \/ BulkCreateCall(c, calls.bulk_create, cap)
    \/ RetrieveCall(c, calls.retrieve)
    \/ UpdateCall(c, calls.update)
    \/ DeleteCall(c, calls.delete)
    \/ ExistsCall(c, calls.exists)
    \/ ExecuteCall(c, calls.execute, cap)
    \/ CreateCommit(c)
    \/ BulkInsert(c)
    \/ BulkCommit(c)
    \/ RetrieveQuery(c)
    \/ UpdateStmt(c)
    \/ UpdateCommit(c)
    \/ DeleteSelect(c)
    \/ DeleteStmt(c)
    \/ DeleteCommit(c)
    \/ ExistsQuery(c)
    \/ ExecuteStmt(c)
    \/ ExecuteFinish(c)
    \/ Return(c)

\* one caller, every call
Next == Step("a", AllCalls, MaxRows)
Spec == Init /\ [][Next]_vars

\* two independent callers sharing the manager
NextConc == Step("a", ConcCallsA, MaxConcRows) \/ Step("b", ConcCallsB, MaxConcRows)
SpecConc == Init /\ [][NextConc]_vars

\* one caller that also constructs managers and asks for lock commands
NextManagers ==
    \/ Step("a", ConcCallsA, MaxConcRows)
    \/ \E m \in Managers : Construct(m)
    \/ LockTableCommand
    \/ Take
SpecManagers == Init /\ [][NextManagers]_vars

\* ------------------------------------------------------------ properties
\* the step is the entry of a call of caller c
Called(c) ==
    /\ pc[c] \in {"idle", "done"} /\ pc'[c] # "idle"
    /\ pc'[c] # pc[c] \/ op'[c] # op[c]
\* the step commits the transaction of caller c
Committed(c) == call'[c].commits = call[c].commits + 1
\* the column names a call refers to
Referenced(o) ==
    IF o.kind = "bulk_create" THEN RecordKeys(o.records)
    ELSE Keys(o.filters) \cup Keys(o.values) \cup SeqRange(o.cols)
Validating == {"create", "bulk_create", "retrieve", "update", "delete", "exists"}
Committing(o) ==
    o.kind \in {"create", "bulk_create", "update", "delete"}
    \/ (o.kind = "execute" /\ ~o.flag)

\* C1 (as stated): every finished call has opened exactly one session and has
\* either committed and returned, or raised without having committed.
C1_CommitOrRollback ==
    \A c \in Callers : pc[c] = "done" =>
        /\ call[c].opened = 1
        /\ \/ ret[c].status = "ok" /\ call[c].commits = 1
           \/ ret[c].status = "error" /\ call[c].commits = 0

\* C1 (amended): a call opens at most one session, none when its argument
\* checks end it; it commits at most once, and a commit installs all the
\* writes of its transaction in one step; a call that returns has committed
\* if it is create, bulk_create, update, delete or execute without fetch, and
\* has not if it is retrieve, exists or execute with fetch; a call that raises
\* has committed nothing, except delete with error_when_empty, which commits
\* its deletion of zero rows and then raises; nothing but a commit changes
\* the committed rows.
C1_OneSessionAtomicCommit ==
    [][\A c \in Callers :
        /\ (pc'[c] = "done" /\ (pc[c] # "done" \/ Called(c))) =>
            /\ ~call'[c].open /\ call'[c].opened <= 1 /\ call'[c].commits <= 1
            /\ call'[c].opened = 0 => call'[c].commits = 0 /\ Called(c)
            /\ (ret'[c].status = "ok" /\ call'[c].opened = 1) =>
                    call'[c].commits = (IF Committing(op'[c]) THEN 1 ELSE 0)
            /\ ret'[c].status = "error" =>
                    \/ call'[c].commits = 0
                    \/ /\ op'[c].kind = "delete" /\ op'[c].flag
                       /\ ret'[c].kind = "NoRecords" /\ db' = db
        /\ Committed(c) =>
            /\ pc'[c] = "done" /\ call[c].open
            /\ IF op[c].kind = "create"
               THEN /\ nextId' = nextId + 1
                    /\ db' = [db EXCEPT ![nextId'] = NewRow(op[c].filters)]
               ELSE db' = [id \in Ids |-> IF id \in Held(c) THEN pend[c][id] ELSE db[id]]
        /\ (db' # db) => \E d \in Callers : Committed(d)
      ]_vars

\* C1 witness: an update that has committed and returned through its session.
C1_Witness ==
    \E c \in Callers :
        /\ pc[c] = "done" /\ op[c].kind = "update" /\ ret[c].status = "ok"
        /\ call[c].opened = 1 /\ call[c].commits = 1
        /\ \E id \in Ids : db[id] # NoRow /\ Matches(db[id], [op[c] EXCEPT !.filters = op[c].values])

C3_UnknownColumnErrorFirst ==
    [][\A c \in Callers :
        (/\ Called(c) /\ op'[c].kind \in Validating
         /\ ~(Referenced(op'[c]) \subseteq DeclaredColumns)) =>
            /\ pc'[c] = "done" /\ ret'[c] = Err("UnknownColumn")
            /\ call'[c].opened = 0 /\ ~call'[c].open /\ db' = db
      ]_vars

\* C3 (amended): such a call raises at its entry, with no session opened and
\* the committed rows unchanged; the error is the unknown-column error,
\* except that retrieve with an invalid fetch mode raises the fetch-mode
\* error, update with empty update_values raises the empty-update error, and
\* a table class that does not derive from the manager's base raises the
\* invalid-table error.
C3_RejectedBeforeSession ==
    [][\A c \in Callers :
        (/\ Called(c) /\ op'[c].kind \in Validating
         /\ ~(Referenced(op'[c]) \subseteq DeclaredColumns)) =>
            /\ pc'[c] = "done" /\ ret'[c].status = "error"
            /\ ret'[c].kind =
                IF op'[c].kind = "retrieve" /\ op'[c].mode \notin {"all", "one"}
                    THEN "InvalidFetchMode"
                ELSE IF op'[c].kind = "update" /\ Keys(op'[c].values) = {}
                    THEN "EmptyUpdate"
                ELSE IF ~OfBase(op'[c].table) THEN "InvalidTable"
                ELSE "UnknownColumn"
            /\ call'[c].opened = 0 /\ ~call'[c].open /\ call'[c].commits = 0
            /\ db' = db /\ nextId' = nextId /\ pend' = pend
      ]_vars

\* C3 witness: a delete whose return column is not declared has been rejected
\* while the table holds a row.
C3_Witness ==
    \E c \in Callers :
        /\ pc[c] = "done" /\ op[c].kind = "delete" /\ "bogus" \in SeqRange(op[c].cols)
        /\ ret[c] = Err("UnknownColumn") /\ call[c].opened = 0
        /\ \E id \in Ids : db[id] # NoRow

\* C4 (as stated): whenever a call has validated its column names, validation
\* succeeded if and only if every name is a declared column of the table.
C4_ValidIffSubset ==
    \A c \in Callers : call[c].validated # "skipped" =>
        (call[c].validated = "ok" <=> Referenced(op[c]) \subseteq DeclaredColumns)

\* C4 (amended): for a table class that derives from the manager's base,
\* validation succeeds if and only if every name is a declared column; for
\* any other class it succeeds only for the empty set of names; the empty set
\* validates for every table.
C4_ValidIffSubsetOfBaseTable ==
    \A c \in Callers : call[c].validated # "skipped" =>
        /\ OfBase(op[c].table) =>
            (call[c].validated = "ok" <=> Referenced(op[c]) \subseteq DeclaredColumns)
        /\ ~OfBase(op[c].table) =>
            (call[c].validated = "ok" <=> Referenced(op[c]) = {})
        /\ Referenced(op[c]) = {} => call[c].validated = "ok"
        /\ call[c].validated = "ok" <=> ret[c].kind \notin {"UnknownColumn", "InvalidTable"}

\* C4 witness: a set naming one declared and one undeclared column has been
\* rejected for a table of the manager's base.
C4_Witness ==
    \E c \in Callers :
        /\ OfBase(op[c].table) /\ call[c].validated = "UnknownColumn"
        /\ Referenced(op[c]) \cap DeclaredColumns # {}
        /\ Referenced(op[c]) \ DeclaredColumns # {}

\* C5: a delete whose filters and conditions match no row, once it has
\* committed, raises the no-records error when error_when_empty is set and
\* returns otherwise, and the committed rows are unchanged either way; when a
\* row matches, the delete returns whatever error_when_empty is.
C5_DeleteErrorWhenEmpty ==
    [][\A c \in Callers :
        /\ (op[c].kind = "delete" /\ pc[c] = "stmt" /\ pc'[c] = "commit") =>
            deleted_count'[c] = Cardinality(MatchIds(db, op[c]))
        /\ (op[c].kind = "delete" /\ Committed(c)) =>
            LET n == Cardinality({id \in Ids : Matches(db[id], op[c])})
            IN  /\ (n = 0 /\ op[c].flag) => ret'[c] = Err("NoRecords") /\ db' = db
                /\ (n = 0 /\ ~op[c].flag) => ret'[c] = OkNone /\ db' = db
                /\ n > 0 => ret'[c].status = "ok" /\ db' # db
      ]_vars

\* C5 witness: a strict delete that matched nothing has raised while the
\* table holds a row.
C5_Witness ==
    \E c \in Callers :
        /\ pc[c] = "done" /\ op[c].kind = "delete" /\ op[c].flag
        /\ ret[c] = Err("NoRecords") /\ \E id \in Ids : db[id] # NoRow

\* C6: an update called with empty update_values raises the empty-update
\* error at its entry, whatever its table, filters and conditions; no
\* session is opened and no row changes.
C6_EmptyUpdateRejected ==
    [][\A c \in Callers :
        (Called(c) /\ op'[c].kind = "update" /\ Keys(op'[c].values) = {}) =>
            /\ pc'[c] = "done" /\ ret'[c] = Err("EmptyUpdate")
            /\ call'[c].opened = 0 /\ ~call'[c].open /\ call'[c].commits = 0
            /\ db' = db /\ pend' = pend
      ]_vars

\* C6 witness: an update with empty update_values, an undeclared filter column
\* and a table holding a row has been rejected as empty.
C6_Witness ==
    \E c \in Callers :
        /\ pc[c] = "done" /\ op[c].kind = "update" /\ Keys(op[c].values) = {}
        /\ "bogus" \in Keys(op[c].filters)
        /\ ret[c] = Err("EmptyUpdate") /\ \E id \in Ids : db[id] # NoRow

\* C7: a retrieve that follows a successful create on the same table, with
\* the created fields as its equality filters, returns the created values:
\* with mode 'all' a list holding a record that carries them, with mode 'one'
\* a record (never None) that carries them.
C7_CreateRetrieveRoundTrip ==
    \A c \in Callers :
        (pc[c] = "done" /\ chain[c] = "roundtrip" /\ ret[c].status = "ok") =>
            LET o == op[c]
                Carries(r) ==
                    IF o.cols = <<>>
                    THEN /\ o.filters.name # Absent => r[1] = o.filters.name
                         /\ o.filters.annotation # Absent => r[2] = o.filters.annotation
                    ELSE \A i \in 1..Len(o.cols) :
                            o.filters[o.cols[i]] # Absent => r[i] = o.filters[o.cols[i]]
            IN  /\ Keys(o.filters) # {}
                /\ o.mode = "all" =>
                    /\ ret[c].kind = "list"
                    /\ \E i \in 1..Len(ret[c].rows) : Carries(ret[c].rows[i])
                /\ o.mode = "one" =>
                    /\ ret[c].kind = "row" /\ Carries(ret[c].rows[1])
                /\ \E id \in Ids : db[id] # NoRow /\
                        \A k \in Keys(o.filters) : db[id][k] = o.filters[k]

\* C7 witness: after create(name=P2), retrieve(name=P2) with mode 'one' has
\* returned a record.
C7_Witness ==
    \E c \in Callers :
        /\ pc[c] = "done" /\ chain[c] = "roundtrip" /\ op[c].mode = "one"
        /\ op[c].filters = Map("P2", Absent, Absent) /\ op[c].cols = <<>>
        /\ ret[c].kind = "row" /\ ret[c].rows[1][1] = "P2"

\* C8: an update repeated at once with the same arguments commits without
\* changing any row: twice gives the table that once gave.
C8_UpdateIdempotent ==
    [][\A c \in Callers :
        (op[c].kind = "update" /\ chain[c] = "repeat" /\ Committed(c)) =>
            db' = db /\ nextId' = nextId
      ]_vars

\* C8 witness: the second of two identical updates has returned, and the
\* table holds a row with the updated values next to one the filters leave out.
C8_Witness ==
    \E c \in Callers :
        /\ pc[c] = "done" /\ op[c].kind = "update" /\ chain[c] = "repeat"
        /\ ret[c].status = "ok" /\ call[c].commits = 1
        /\ \E id \in Ids : db[id] # NoRow /\ Merge(db[id], op[c].values) = db[id]
        /\ \E id \in Ids : db[id] # NoRow /\ Merge(db[id], op[c].values) # db[id]

\* C9: the commit of an update gives every row that satisfies all equality
\* filters and all conditions the update_values in the named columns and
\* leaves its other columns, every other row and the number of rows as they
\* were.
C9_UpdateFrame ==
    [][\A c \in Callers :
        (op[c].kind = "update" /\ Committed(c)) =>
            LET o == op[c]
                Sat(row) ==
                    /\ row # NoRow
                    /\ \A k \in DeclaredColumns : o.filters[k] \in {Absent, row[k]}
                    /\ \A i \in 1..Len(o.conds) :
                            row[o.conds[i].col] \notin {NULL, o.conds[i].val}
            IN  /\ ret'[c] = OkNone
                /\ nextId' = nextId
                /\ \A id \in Ids :
                    IF Sat(db[id])
                    THEN /\ db'[id] # NoRow
                         /\ \A k \in DeclaredColumns :
                                db'[id][k] = IF o.values[k] # Absent THEN o.values[k]
                                             ELSE db[id][k]
                    ELSE db'[id] = db[id]
      ]_vars

\* C9 witness: after the creates P1, P2, P2 the update of annotation where
\* name = P2 has returned; both P2 rows carry it and the P1 row does not.
C9_Witness ==
    \E c \in Callers :
        /\ pc[c] = "done" /\ op[c].kind = "update" /\ ret[c] = OkNone
        /\ op[c].filters = Map("P2", Absent, Absent) /\ op[c].conds = <<>>
        /\ op[c].values = Map(Absent, "A2", Absent)
        /\ db[1] = [name |-> "P1", annotation |-> NULL]
        /\ db[2] = [name |-> "P2", annotation |-> "A2"]
        /\ db[3] = [name |-> "P2", annotation |-> "A2"]

\* C10: a finished retrieve with mode 'all' has returned exactly the rows
\* that satisfy every equality filter and every condition, projected on the
\* return columns; with mode 'one' one of those rows, and None exactly when
\* there is none; with another mode it has raised the fetch-mode error
\* without a session.
C10_RetrieveSelectsConjunction ==
    \A c \in Callers : (pc[c] = "done" /\ op[c].kind = "retrieve") =>
        LET o == op[c]
            r == ret[c]
            Sat(row) ==
                /\ row # NoRow
                /\ \A k \in DeclaredColumns : o.filters[k] \in {Absent, row[k]}
                /\ \A i \in 1..Len(o.conds) :
                        row[o.conds[i].col] \notin {NULL, o.conds[i].val}
            S == {id \in Ids : Sat(db[id])}
            Shown(id) ==
                IF o.cols = <<>> THEN <<db[id].name, db[id].annotation>>
                ELSE [i \in 1..Len(o.cols) |-> db[id][o.cols[i]]]
        IN  /\ o.mode \notin {"all", "one"} =>
                r = Err("InvalidFetchMode") /\ call[c].opened = 0
            /\ (r.status = "ok" /\ o.mode = "all") =>
                /\ r.kind = "list" /\ Len(r.rows) = Cardinality(S)
                /\ \A id \in S :
                    Cardinality({i \in 1..Len(r.rows) : r.rows[i] = Shown(id)})
                        = Cardinality({j \in S : Shown(j) = Shown(id)})
            /\ (r.status = "ok" /\ o.mode = "one") =>
                /\ S = {} <=> r.kind = "None"
                /\ S # {} => r.kind = "row" /\ \E id \in S : r.rows[1] = Shown(id)
            /\ r.status = "ok" => call[c].opened = 1 /\ call[c].commits = 0

\* C10 witness: a retrieve with a filter and a condition has returned one of
\* the two rows that satisfy the filter.
C10_Witness ==
    \E c \in Callers :
        /\ pc[c] = "done" /\ op[c].kind = "retrieve" /\ op[c].mode = "all"
        /\ op[c].conds # <<>> /\ Keys(op[c].filters) # {}
        /\ ret[c].kind = "list" /\ Len(ret[c].rows) = 1
        /\ Cardinality({id \in Ids : db[id] # NoRow /\
                \A k \in Keys(op[c].filters) : db[id][k] = op[c].filters[k]}) = 2

\* C11: bulk_create is all-or-nothing.  With an empty list it returns at its
\* entry without a session; a list that names an undeclared column is
\* rejected at its entry without a session; a call that raises, at the
\* INSERT or at the commit, leaves the committed rows as they were before the
\* call; a call that returns has added one row per record of the list, in
\* the order of the list, in its single commit, and has changed no other row.
C11_BulkCreateAllOrNothing ==
    [][\A c \in Callers :
        /\ (Called(c) /\ op'[c].kind = "bulk_create" /\ op'[c].records = <<>>) =>
            /\ pc'[c] = "done" /\ ret'[c] = OkNone
            /\ call'[c].opened = 0 /\ ~call'[c].open /\ db' = db /\ pend' = pend
        /\ (/\ Called(c) /\ op'[c].kind = "bulk_create" /\ op'[c].records # <<>>
            /\ ~(RecordKeys(op'[c].records) \subseteq DeclaredColumns)) =>
            /\ pc'[c] = "done" /\ ret'[c].status = "error"
            /\ call'[c].opened = 0 /\ db' = db /\ pend' = pend
        /\ (op[c].kind = "bulk_create" /\ pc[c] # "done" /\ pc'[c] # "done") => db' = db
        /\ (op[c].kind = "bulk_create" /\ pc[c] # "done" /\ pc'[c] = "done") =>
            LET recs == op[c].records
                new == {id \in Ids : db[id] = NoRow /\ db'[id] # NoRow}
            IN  /\ ret'[c].status = "error" => db' = db /\ call'[c].commits = 0
                /\ ret'[c].status = "ok" =>
                    /\ call'[c].opened = 1 /\ call'[c].commits = 1
                    /\ Cardinality(new) = Len(recs)
                    /\ \A id \in Ids \ new : db'[id] = db[id]
                    /\ \A i \in 1..Len(recs) :
                        /\ Min(new) + i - 1 \in new
                        /\ \A k \in DeclaredColumns :
                            db'[Min(new) + i - 1][k] =
                                IF recs[i][k] = Absent THEN NULL ELSE recs[i][k]
      ]_vars

\* C11 witness: a bulk_create of two records has returned and both rows are
\* committed, next to a row that was there before.
C11_Witness ==
    \E c \in Callers :
        /\ pc[c] = "done" /\ op[c].kind = "bulk_create" /\ Len(op[c].records) = 2
        /\ ret[c] = OkNone /\ call[c].commits = 1
        /\ db[1] # NoRow
        /\ db[2] = [name |-> "P2", annotation |-> "A2"]
        /\ db[3] = [name |-> "P2", annotation |-> NULL]

\* C12: a delete that commits and returns gives back, when return_columns is
\* not empty, the projection on those columns of exactly the rows its commit
\* removes, as they were before the deletion, whatever the other callers
\* commit in between; without return_columns it returns nothing.
C12_DeleteReturnsDeletedRows ==
    [][\A c \in Callers :
        (op[c].kind = "delete" /\ Committed(c) /\ ret'[c].status = "ok") =>
            LET gone == {id \in Ids : db[id] # NoRow /\ db'[id] = NoRow}
            IN  IF op[c].cols # <<>>
                THEN ret'[c].rows = RowsOf(db, gone, op[c].cols)
                ELSE ret'[c] = OkNone
      ]_vars

\* C13: a call of any operation during which the backend failed has released
\* its session with nothing committed and nothing pending, and has raised
\* the typed error, never the backend's own error.
C13_BackendFailureTyped ==
    \A c \in Callers :
        (pc[c] = "done" /\ ret[c].kind \in {"Backend", "RawBackend"}) =>
            /\ ret[c] = Err("Backend")
            /\ call[c].commits = 0 /\ ~call[c].open /\ Held(c) = {}

\* C14: the session a call opens is released before the call returns or
\* raises: a caller that is between calls, or has the outcome of a call, has
\* no open session and no pending write; a session is open only while its
\* call is at one of its statements; a call opens its session at its entry,
\* when the caller has none open, and never a second one; and only the
\* caller's own open session writes for it.
C14_SessionReleased ==
    [][\A c \in Callers :
        /\ pc'[c] \in {"idle", "done"} =>
            ~call'[c].open /\ Held(c)' = {} /\ call'[c].opened <= 1
        /\ call'[c].open =>
            /\ pc'[c] \in {"stmt", "select", "commit", "finish"}
            /\ call'[c].opened = 1
        /\ (call'[c].open /\ ~call[c].open) => Called(c)
        /\ Called(c) => ~call[c].open /\ Held(c) = {}
        /\ pend'[c] # pend[c] => call[c].open
      ]_vars

\* C14 witness: a retrieve that the backend failed has raised, and its
\* session is released.
C14_Witness ==
    \E c \in Callers :
        /\ pc[c] = "done" /\ op[c].kind = "retrieve" /\ ret[c] = Err("Backend")
        /\ call[c].opened = 1 /\ ~call[c].open /\ Held(c) = {}

\* C15: in every update call the lock command that lock_table_command of the
\* manager's class gives for the target table has been sent in the call's
\* session before the statement that modifies the rows.
C15_UpdateIssuesLockCommand ==
    \A c \in Callers :
        op[c].kind = "update" =>
            LET s == call[c].sent
            IN  \A i \in 1..Len(s) :
                    s[i].text = <<"UPDATE">> =>
                        \E j \in 1..(i - 1) :
                            s[j].text = lock_table_command(mgr["m1"].cls, "project")

\* C16: the descriptor that DBManager.__init__ builds depends on the
\* configuration alone.  For sqlite with database ':memory:' it is the
\* in-memory descriptor, with no user, password, host or port in it; for
\* sqlite with another database it is the file descriptor, which holds that
\* path once and nothing of user, password, host and port; for any other
\* dialect it is dialect[+driver]://user:password@host:port/database, the
\* +driver piece left out when the driver is empty.
C16_DescriptorOfConfig ==
    (out.call = "construct" /\ out.url # <<>>) =>
        LET g == out.passed
            u == out.url
            port ==
                IF g.port = None THEN <<"None">>
                ELSE IF g.port = 0 THEN <<"0">>
                ELSE IF g.port = 7776 THEN <<"7", "7", "7", "6">>
                ELSE IF g.port = 5432 THEN <<"5", "4", "3", "2">>
                ELSE IF g.port = 3306 THEN <<"3", "3", "0", "6">>
                ELSE IF g.port = 1521 THEN <<"1", "5", "2", "1">>
                ELSE <<"1", "4", "3", "3">>
            rest == <<"://", g.user, ":", g.password, "@", g.host, ":">> \o port
                        \o <<"/", g.database>>
        IN  /\ (g.dialect = "sqlite" /\ g.database = ":memory:") => u = <<"sqlite://">>
            /\ (g.dialect = "sqlite" /\ g.database # ":memory:") =>
                /\ u = <<"sqlite:///", g.database>>
                /\ Cardinality({i \in 1..Len(u) : u[i] = g.database}) = 1
            /\ (g.dialect # "sqlite" /\ g.engine = "") => u = <<g.dialect>> \o rest
            /\ (g.dialect # "sqlite" /\ g.engine # "") =>
                u = <<g.dialect, "+", g.engine>> \o rest

\* C16 witness: a manager on a sqlite file has been constructed with a user
\* and a port in its arguments.
C16_Witness ==
    /\ out.call = "construct" /\ out.status = "ok"
    /\ out.passed.dialect = "sqlite" /\ out.passed.database = "postgres"
    /\ out.passed.user = "admin" /\ out.passed.port = 7776
    /\ out.url = <<"sqlite:///", "postgres">>

\* C17: a constructor call raises the unsupported-dialect error exactly when
\* its dialect is not one of the five registered ones, and the
\* unsupported-driver error exactly when the dialect is registered and the
\* driver is not empty and not one of that dialect's drivers, so for sqlite
\* with every driver but the empty one; with a registered dialect and an
\* empty driver it raises neither.  When it raises one of the two, no
\* descriptor has been built and no manager exists that did not before.
C17_ConfigurationRejected ==
    [][(out.call = "none" /\ out'.call = "construct") =>
        LET cfg == out'.args
            dialect == IF cfg.cls = "DBManager" THEN cfg.dialect ELSE ClassDialect(cfg.cls)
            registered == dialect \in {"postgresql", "mysql", "oracle", "mssql", "sqlite"}
            allowed ==
                \/ cfg.engine = "psycopg2" /\ dialect = "postgresql"
                \/ cfg.engine = "pymysql" /\ dialect = "mysql"
        IN  /\ out'.error = "UnsupportedDialect" <=> ~registered
            /\ out'.error = "UnsupportedEngine" <=>
                    (registered /\ cfg.engine # "" /\ ~allowed)
            /\ (dialect = "sqlite" /\ cfg.engine # "") => out'.error = "UnsupportedEngine"
            /\ (registered /\ cfg.engine = "") =>
                    out'.error \notin {"UnsupportedDialect", "UnsupportedEngine"}
            /\ out'.error \in {"UnsupportedDialect", "UnsupportedEngine"} =>
                    /\ out'.status = "error" /\ out'.url = <<>> /\ mgr' = mgr
      ]_vars

\* C17 witness: sqlite with the driver psycopg2 has been rejected and no
\* second manager exists.
C17_Witness ==
    /\ out.call = "construct" /\ out.error = "UnsupportedEngine"
    /\ out.passed.dialect = "sqlite" /\ out.passed.engine = "psycopg2"
    /\ out.url = <<>> /\ mgr["m2"] = NoManager

C20_LockCommandPerDialect ==
    out.call = "lock" =>
        LET cls == out.args.cls
            name == out.args.database
            cmd == out.command
        IN  /\ cls \in {"PostgreDBManager", "OracleDBManager"} =>
                    cmd = <<"LOCK TABLE ", name, " IN EXCLUSIVE MODE">>
            /\ cls = "MySQLDBManager" => cmd = <<"LOCK TABLES ", name, " WRITE">>
            /\ cls = "MicrosoftSQLServerDBManager" =>
                    cmd = <<"SELECT * FROM ", name, " WITH (TABLOCKX)">>
            /\ cls = "SQLiteDBManager" => cmd = <<>>
            /\ cls # "SQLiteDBManager" => Len(cmd) = 3 /\ cmd[2] = name

\* C20 witness: the SQL Server manager has been asked for the lock command of
\* the table users.
C20_Witness ==
    /\ out.call = "lock" /\ out.args.cls = "MicrosoftSQLServerDBManager"
    /\ out.args.database = "users"
    /\ out.command = <<"SELECT * FROM ", "users", " WITH (TABLOCKX)">>

\* C21: retrieve and exists are read-only.  No step of a retrieve or exists
\* call, whether it returns or raises, changes the committed rows or the
\* keys handed out, writes in its transaction or commits; and an exists that
\* returns gives true exactly when some row satisfies every equality filter
\* and every condition.
C21_ReadOnly ==
    [][\A c \in Callers :
        /\ (Called(c) /\ op'[c].kind \in {"retrieve", "exists"}) =>
            db' = db /\ nextId' = nextId /\ pend' = pend /\ call'[c].commits = 0
        /\ (op[c].kind \in {"retrieve", "exists"} /\ pc[c] = "stmt") =>
            /\ db' = db /\ nextId' = nextId /\ pend' = pend
            /\ pc'[c] = "done" /\ call'[c].commits = 0 /\ ~call'[c].open
        /\ (op[c].kind = "exists" /\ pc[c] = "stmt" /\ ret'[c].status = "ok") =>
            LET o == op[c]
                Sat(row) ==
                    /\ row # NoRow
                    /\ \A k \in DeclaredColumns : o.filters[k] \in {Absent, row[k]}
                    /\ \A i \in 1..Len(o.conds) :
                            row[o.conds[i].col] \notin {NULL, o.conds[i].val}
            IN  /\ ret'[c].kind = "bool"
                /\ ret'[c].flag <=> \E id \in Ids : Sat(db[id])
      ]_vars

\* C21 witness: an exists has returned false although a row satisfies its
\* equality filter, because no row satisfies its condition too.
C21_Witness ==
    \E c \in Callers :
        /\ pc[c] = "done" /\ op[c].kind = "exists" /\ ret[c] = OkBool(FALSE)
        /\ Keys(op[c].filters) # {} /\ op[c].conds # <<>>
        /\ \E id \in Ids : db[id] # NoRow /\
                \A k \in Keys(op[c].filters) : db[id][k] = op[c].filters[k]

\* C22: an execute with fetch never commits.  No step of such a call changes
\* the committed rows; when it ends, with the fetched rows or with an error,
\* its session is closed with no commit made and the writes of its statement
\* are dropped, so that what is read afterwards is the committed rows as they
\* were before the call.
C22_FetchNeverCommits ==
    [][\A c \in Callers :
        /\ (Called(c) /\ op'[c].kind = "execute" /\ op'[c].flag) => db' = db
        /\ (op[c].kind = "execute" /\ op[c].flag /\ pc[c] \in {"stmt", "finish"}) =>
            /\ db' = db /\ call'[c].commits = 0
            /\ pc'[c] = "done" =>
                /\ ~call'[c].open
                /\ \A id \in Ids : pend'[c][id] = Untouched
                /\ Visible(c)' = db
      ]_vars

\* C22 witness: an execute with fetch of a DELETE ... RETURNING has returned
\* the row it deleted, and the row is still committed.
C22_Witness ==
    \E c \in Callers :
        /\ pc[c] = "done" /\ op[c].kind = "execute" /\ op[c].flag
        /\ op[c].sql = "DELETE_RETURNING"
        /\ ret[c].kind = "list" /\ Len(ret[c].rows) = 1 /\ call[c].commits = 0
        /\ db[1] # NoRow /\ ret[c].rows[1] = <<db[1].name, db[1].annotation>>

\* C23: a constructor call of one of the four network dialect managers gives
\* DBManager.__init__ the default port of its dialect (postgresql 5432,
\* mysql 3306, oracle 1521, mssql 1433) when the port is None, and the given
\* port, 0 included, otherwise; and the SQLite manager is constructed from
\* its database alone, with no user, password, host or port, and gets the
\* sqlite descriptor of that database.
C23_DefaultPorts ==
    out.call = "construct" =>
        LET cfg == out.args
            default ==
                IF cfg.cls = "PostgreDBManager" THEN 5432
                ELSE IF cfg.cls = "MySQLDBManager" THEN 3306
                ELSE IF cfg.cls = "OracleDBManager" THEN 1521
                ELSE 1433
        IN  /\ cfg.cls \in {"PostgreDBManager", "MySQLDBManager", "OracleDBManager",
                             "MicrosoftSQLServerDBManager"} =>
                out.passed.port = IF cfg.port = None THEN default ELSE cfg.port
            /\ cfg.cls = "SQLiteDBManager" =>
                /\ out.error \in {"-", "SessionError"}
                /\ out.url = IF cfg.database = ":memory:" THEN <<"sqlite://">>
                             ELSE <<"sqlite:///", cfg.database>>

====
